---- MODULE Spec2Model ----
(***************************************************************************)
(* PakNet AI Orchestrator: the App component (history, generation request) *)
(* and the MarkdownContent line renderer.                                  *)
(*                                                                         *)
(* Strings are sequences of one-character strings, so that trim,           *)
(* startsWith, substring and split are computed as the code computes them. *)
(* The literal pieces of the prompt template and the fixed messages are    *)
(* kept as single tokens.                                                  *)
(***************************************************************************)
EXTENDS Integers, Sequences, FiniteSets, TLC

\* ------------------------------------------------------------------ bounds
MaxGenerations == 2     \* submissions accepted in one session
PriorGenerations == 9   \* generations of an earlier session left in storage

\* ------------------------------------------------------- string primitives
IsSpace(c) == c \in {" ", "\t", "\r"}

RECURSIVE TrimStart(_)
TrimStart(s) ==
  IF s = <<>> THEN <<>>
  ELSE IF IsSpace(Head(s)) THEN TrimStart(Tail(s)) ELSE s

RECURSIVE TrimEnd(_)
TrimEnd(s) ==
  IF s = <<>> THEN <<>>
  ELSE IF IsSpace(s[Len(s)]) THEN TrimEnd(SubSeq(s, 1, Len(s) - 1)) ELSE s

Trim(s) == TrimEnd(TrimStart(s))

StartsWith(s, p) == Len(s) >= Len(p) /\ SubSeq(s, 1, Len(p)) = p

EndsWith(s, p) == Len(s) >= Len(p) /\ SubSeq(s, Len(s) - Len(p) + 1, Len(s)) = p

\* s.substring(n): the characters from 0-based index n on
Substring(s, n) == SubSeq(s, n + 1, Len(s))

\* s.slice(a, b) on an array, 0 <= a <= b
Slice(s, a, b) == SubSeq(s, a + 1, IF b < Len(s) THEN b ELSE Len(s))

\* s.includes(p)
Includes(s, p) == \E i \in 0..(Len(s) - Len(p)) : SubSeq(s, i + 1, i + Len(p)) = p

\* ------------------------------------------------------ generation service
PromptHead == "Generate a comprehensive blueprint for the device: "
PromptTail == ". Pay special attention to Section 7, providing highly detailed, error-resilient automation scripts with best-practice Python/Ansible logic."
ServiceError == "Unable to reach PakNet AI services. Please verify your connection."
EmptyFallback == <<"Failed to generate blueprint content.">>
UnexpectedError == "An unexpected error occurred during generation."
QuotaError == "QuotaExceededError"

\* the contents field of the request generateBlueprint sends
Prompt(model) == <<PromptHead>> \o model \o <<PromptTail>>

\* what ai.models.generateContent can do: return a text or throw an error
\* whose message depends on the cause
ResponseTexts == { <<"o", "k">> }
ThrownMessages == { "fetch failed", "" }
ApiOutcomes ==
  [kind : {"returned"}, text : ResponseTexts, message : {""}]
    \cup [kind : {"thrown"}, text : {<<>>}, message : ThrownMessages]

\* generateBlueprint, after the awaited call has settled with outcome o
GenerateBlueprint_Rethrow(o) ==
  IF o.kind = "thrown"
    THEN [ok |-> FALSE, text |-> <<>>, message |-> o.message]
    ELSE [ok |-> TRUE, text |-> IF o.text = <<>> THEN EmptyFallback ELSE o.text,
          message |-> ""]

GenerateBlueprint(o) ==
  IF o.kind = "thrown"
    THEN [ok |-> FALSE, text |-> <<>>, message |-> ServiceError]
    ELSE [ok |-> TRUE, text |-> IF o.text = <<>> THEN EmptyFallback ELSE o.text,
          message |-> ""]

\* ------------------------------------------------------------------ history
Blueprint(id, model, content, ts) ==
  [id |-> id, deviceModel |-> model, content |-> content, timestamp |-> ts]

Filter(hist, model) ==
  SelectSeq(hist, LAMBDA h : h.deviceModel /= model)

\* the list saveToHistory computes from the history of its closure
NewHistory_NoFilter(hist, blueprint) ==
  <<blueprint>> \o Slice(hist, 0, 9)

NewHistory_Slice10(hist, blueprint) ==
  <<blueprint>> \o Slice(Filter(hist, blueprint.deviceModel), 0, 10)

NewHistory_SliceFirst(hist, blueprint) ==
  <<blueprint>> \o Filter(Slice(hist, 0, 9), blueprint.deviceModel)

NewHistory(hist, blueprint) ==
  <<blueprint>> \o Slice(Filter(hist, blueprint.deviceModel), 0, 9)

\* JSON.stringify / JSON.parse of the history list in the storage slot
JSONStringify(list) == [kind |-> "json", value |-> list]
ParseOk(item) == item.kind = "json"
JSONParse(item) == item.value

\* what an earlier session of the program left in localStorage
PriorModel(n) == [j \in 1..n |-> "r"]

RECURSIVE PriorHistory(_)
PriorHistory(n) ==
  IF n = 0 THEN <<>>
  ELSE NewHistory(PriorHistory(n - 1), Blueprint(n, PriorModel(n), <<"o", "k">>, n))

StorageStates ==
  { [kind |-> "absent", value |-> <<>>],
    [kind |-> "garbage", value |-> <<>>],
    JSONStringify(PriorHistory(PriorGenerations)) }

\* what the user can type into the device-model input
InputStrings ==
  { <<>>, <<" ">>, <<"a">>, <<" ", "a">> }

\* ------------------------------------------------------- Markdown renderer
MaxLines == 4       \* lines of a multi-line content
MaxLineLen == 4     \* characters of a single-line content

\* the backtick character (written as a token)
Backtick == "BACKTICK"
Fence == <<Backtick, Backtick, Backtick>>
IsDigit(c) == c \in {"0", "1", "2", "3", "4", "5", "6", "7", "8", "9"}
IsLineTerminator(c) == c \in {"\n", "\r"}

\* content.split('\n')
RECURSIVE Split(_)
Split(s) ==
  IF \E i \in 1..Len(s) : s[i] = "\n"
    THEN LET i == CHOOSE i \in 1..Len(s) :
                    s[i] = "\n" /\ \A j \in 1..(i - 1) : s[j] /= "\n"
         IN <<SubSeq(s, 1, i - 1)>> \o Split(SubSeq(s, i + 1, Len(s)))
    ELSE <<s>>

\* lines.join('\n')
RECURSIVE Join(_)
Join(ls) ==
  IF ls = <<>> THEN <<>>
  ELSE IF Len(ls) = 1 THEN ls[1]
  ELSE ls[1] \o <<"\n">> \o Join(Tail(ls))

\* line.trim().startsWith of three backticks
IsFence(line) == StartsWith(Trim(line), Fence)

\* number of leading digits of s
RECURSIVE LeadingDigits(_)
LeadingDigits(s) ==
  IF s /= <<>> /\ IsDigit(Head(s)) THEN 1 + LeadingDigits(Tail(s)) ELSE 0

\* line.match(/^\d+\./)
MatchesOrdered(line) ==
  LET d == LeadingDigits(line)
  IN d >= 1 /\ Len(line) > d /\ line[d + 1] = "."

\* line.replace(/^\d+\.\s+/, '')
StripOrdered(line) ==
  LET d == LeadingDigits(line)
  IN IF d >= 1 /\ Len(line) > d + 1 /\ line[d + 1] = "." /\ IsSpace(line[d + 2])
       THEN TrimStart(Substring(line, d + 1))
       ELSE line

\* is there a match of /\*\*.*?\*\*/ starting at i and ending at j + 1
BoldMatch(s, i, j) ==
  /\ i + 2 <= j /\ j + 1 <= Len(s)
  /\ s[i] = "*" /\ s[i + 1] = "*" /\ s[j] = "*" /\ s[j + 1] = "*"
  /\ \A k \in (i + 2)..(j - 1) : ~IsLineTerminator(s[k])

\* line.split(/(\*\*.*?\*\*)/): leftmost match, shortest at that start
RECURSIVE SplitBold(_)
SplitBold(s) ==
  IF \E i, j \in 1..Len(s) : BoldMatch(s, i, j)
    THEN LET i == CHOOSE i \in 1..Len(s) :
                    /\ \E j \in 1..Len(s) : BoldMatch(s, i, j)
                    /\ \A i2 \in 1..(i - 1) : \A j \in 1..Len(s) : ~BoldMatch(s, i2, j)
             j == CHOOSE j \in 1..Len(s) :
                    /\ BoldMatch(s, i, j)
                    /\ \A j2 \in 1..(j - 1) : ~BoldMatch(s, i, j2)
         IN <<SubSeq(s, 1, i - 1), SubSeq(s, i, j + 1)>>
              \o SplitBold(SubSeq(s, j + 2, Len(s)))
    ELSE <<s>>

\* the map over the parts: <strong> for a part in ** **, the part otherwise
FormatPart(part) ==
  IF StartsWith(part, <<"*", "*">>) /\ EndsWith(part, <<"*", "*">>)
    THEN [text |-> SubSeq(part, 3, Len(part) - 2), bold |-> TRUE]
    ELSE [text |-> part, bold |-> FALSE]

FormattedText(line) ==
  LET parts == SplitBold(line)
  IN [k \in 1..Len(parts) |-> FormatPart(parts[k])]

\* a pushed element: its key (the line index), its tag and its children
Node(key, tag, text, spans) ==
  [key |-> key, tag |-> tag, text |-> text, spans |-> spans]

\* the element pushed for a line outside a code block
StandardElement(line, i) ==
  IF StartsWith(line, <<"#", " ">>) THEN Node(i, "h1", Substring(line, 2), <<>>)
  ELSE IF StartsWith(line, <<"#", "#", " ">>) THEN Node(i, "h2", Substring(line, 3), <<>>)
  ELSE IF StartsWith(line, <<"#", "#", "#", " ">>) THEN Node(i, "h3", Substring(line, 4), <<>>)
  ELSE IF StartsWith(line, <<"-", " ">>) \/ StartsWith(line, <<"*", " ">>)
    THEN Node(i, "ul", Substring(line, 2), <<>>)
  ELSE IF MatchesOrdered(line) THEN Node(i, "ol", StripOrdered(line), <<>>)
  ELSE IF Trim(line) = <<>> THEN Node(i, "blank", <<>>, <<>>)
  ELSE Node(i, "p", <<>>, FormattedText(line))

\* the forEach callback on line i (0-based) in state st
\* st = [elements, currentCodeBlock, isCodeBlock]
RenderStep_DropBlankInCode(st, line, i) ==
  IF IsFence(line)
    THEN IF st.isCodeBlock
           THEN [elements |-> Append(st.elements,
                                     Node(i, "code", Join(st.currentCodeBlock), <<>>)),
                 currentCodeBlock |-> <<>>,
                 isCodeBlock |-> FALSE]
           ELSE [st EXCEPT !.isCodeBlock = TRUE]
  ELSE IF st.isCodeBlock
    THEN IF Trim(line) = <<>> THEN st
         ELSE [st EXCEPT !.currentCodeBlock = Append(st.currentCodeBlock, line)]
  ELSE [st EXCEPT !.elements = Append(st.elements, StandardElement(line, i))]

RenderStep_FallThrough(st, line, i) ==
  IF IsFence(line)
    THEN IF st.isCodeBlock
           THEN [elements |-> Append(st.elements,
                                     Node(i, "code", Join(st.currentCodeBlock), <<>>)),
                 currentCodeBlock |-> <<>>,
                 isCodeBlock |-> FALSE]
           ELSE [st EXCEPT !.isCodeBlock = TRUE]
  ELSE IF st.isCodeBlock
    THEN [st EXCEPT !.currentCodeBlock = Append(st.currentCodeBlock, line),
                    !.elements = Append(st.elements, StandardElement(line, i))]
  ELSE [st EXCEPT !.elements = Append(st.elements, StandardElement(line, i))]

RenderStep(st, line, i) ==
  IF IsFence(line)
    THEN IF st.isCodeBlock
           THEN [elements |-> Append(st.elements,
                                     Node(i, "code", Join(st.currentCodeBlock), <<>>)),
                 currentCodeBlock |-> <<>>,
                 isCodeBlock |-> FALSE]
           ELSE [st EXCEPT !.isCodeBlock = TRUE]
  ELSE IF st.isCodeBlock
    THEN [st EXCEPT !.currentCodeBlock = Append(st.currentCodeBlock, line)]
  ELSE [st EXCEPT !.elements = Append(st.elements, StandardElement(line, i))]

RenderStart == [elements |-> <<>>, currentCodeBlock |-> <<>>, isCodeBlock |-> FALSE]

\* the whole forEach over the first n lines
RECURSIVE RenderLines(_, _)
RenderLines(lines, n) ==
  IF n = 0 THEN RenderStart
  ELSE RenderStep(RenderLines(lines, n - 1), lines[n], n - 1)

\* the contents handed to MarkdownContent
BlockLines ==
  { Fence, <<" ">> \o Fence \o <<"a">>, <<>>, <<"#", " ", "a">>, <<"a">>, <<"1", ".", "a">> }
LineChars == { "#", " ", "-", "*", "1", ".", "a" }
SeqsUpTo(S, n) == UNION { [1..k -> S] : k \in 0..n }
RenderInputs ==
  { Join(ls) : ls \in SeqsUpTo(BlockLines, MaxLines) } \cup SeqsUpTo(LineChars, MaxLineLen)

\* ---------------------------------------------------------------- variables
VARIABLES
  mounted,           \* the mount effect has run
  deviceModel,       \* useState('')
  loading,           \* useState(false)
  currentBlueprint,  \* useState(null): <<>> or <<blueprint>>
  history,           \* useState([])
  error,             \* useState(null): <<>> or <<message>>
  storage,           \* localStorage slot 'paknet_history'
  storageFull,       \* localStorage.setItem throws (quota exceeded)
  inflight,          \* pending handleGenerate calls, each with its closure
  callsIssued,       \* number of generateContent requests sent
  lastPrompt,        \* contents of the latest generateContent request
  accepted,          \* number of submissions handleGenerate accepted
  lastResponse,      \* how the latest generateContent call stands
  nextId,            \* crypto.randomUUID: ids handed out so far
  now,               \* Date.now(), read when a record is created
  content,           \* MarkdownContent: the content prop
  pos,               \* MarkdownContent: index of the next line of the forEach
  render             \* MarkdownContent: elements, currentCodeBlock, isCodeBlock

appVars == <<mounted, deviceModel, loading, currentBlueprint, history, error,
             storage, storageFull, inflight, callsIssued, lastPrompt, accepted,
             lastResponse, nextId, now>>

renderVars == <<content, pos, render>>

vars == <<appVars, renderVars>>

NoResponse == [kind |-> "none", text |-> <<>>, message |-> ""]
PendingResponse == [kind |-> "pending", text |-> <<>>, message |-> ""]

Init ==
  /\ mounted = FALSE
  /\ deviceModel = <<>>
  /\ loading = FALSE
  /\ currentBlueprint = <<>>
  /\ history = <<>>
  /\ error = <<>>
  /\ storage \in StorageStates
  /\ storageFull \in BOOLEAN
  /\ inflight = <<>>
  /\ callsIssued = 0
  /\ lastPrompt = <<>>
  /\ accepted = 0
  /\ lastResponse = NoResponse
  /\ nextId = PriorGenerations + 1
  /\ now = PriorGenerations + 1
  /\ content = <<>>
  /\ pos = 0
  /\ render = RenderStart

\* useEffect(() => {...}, []): load the persisted history once
Mount ==
  /\ ~mounted
  /\ mounted' = TRUE
  /\ history' = IF storage.kind /= "absent" /\ ParseOk(storage)
                  THEN JSONParse(storage) ELSE history
  /\ UNCHANGED <<storageFull, deviceModel, loading, currentBlueprint, error, storage,
                 inflight, callsIssued, lastPrompt, accepted, lastResponse, nextId, now>>
  /\ UNCHANGED renderVars

\* onChange of the device-model input
ChangeInput ==
  /\ mounted
  /\ \E s \in InputStrings : deviceModel' = s
  /\ deviceModel' /= deviceModel
  /\ UNCHANGED <<mounted, storageFull, loading, currentBlueprint, history, error, storage,
                 inflight, callsIssued, lastPrompt, accepted, lastResponse, nextId, now>>
  /\ UNCHANGED renderVars

\* the submit button's disabled attribute
SubmitDisabled_IgnoreLoading == Trim(deviceModel) = <<>>

SubmitDisabled == loading \/ Trim(deviceModel) = <<>>

\* handleGenerate up to its await: the form's submit event (button click or
\* Enter in the input; a disabled default button blocks both)
HandleGenerate_KeepBlueprint ==
  /\ mounted
  /\ ~SubmitDisabled
  /\ Trim(deviceModel) /= <<>>
  /\ accepted < MaxGenerations
  /\ loading' = TRUE
  /\ error' = <<>>
  /\ accepted' = accepted + 1
  /\ callsIssued' = callsIssued + 1
  /\ lastPrompt' = Prompt(deviceModel)
  /\ inflight' = Append(inflight, [deviceModel |-> deviceModel, history |-> history])
  /\ lastResponse' = PendingResponse
  /\ UNCHANGED <<mounted, storageFull, deviceModel, currentBlueprint, history, storage,
                 nextId, now>>
  /\ UNCHANGED renderVars

HandleGenerate ==
  /\ mounted
  /\ ~SubmitDisabled
  /\ Trim(deviceModel) /= <<>>
  /\ accepted < MaxGenerations
  /\ loading' = TRUE
  /\ error' = <<>>
  /\ currentBlueprint' = <<>>
  /\ accepted' = accepted + 1
  /\ callsIssued' = callsIssued + 1
  /\ lastPrompt' = Prompt(deviceModel)
  /\ inflight' = Append(inflight, [deviceModel |-> deviceModel, history |-> history])
  /\ lastResponse' = PendingResponse
  /\ UNCHANGED <<mounted, storageFull, deviceModel, history, storage, nextId, now>>
  /\ UNCHANGED renderVars

RemoveAt(s, k) == SubSeq(s, 1, k - 1) \o SubSeq(s, k + 1, Len(s))

GenerationSucceeds_CurrentInput ==
  \E k \in 1..Len(inflight), o \in ApiOutcomes :
    LET req == inflight[k]
        res == GenerateBlueprint(o)
        newBlueprint == Blueprint(nextId, deviceModel, res.text, now)
        newHistory == NewHistory(req.history, newBlueprint)
    IN /\ res.ok
       /\ currentBlueprint' = <<newBlueprint>>
       /\ history' = newHistory
       /\ IF storageFull
            THEN /\ storage' = storage
                 /\ error' = <<QuotaError>>
            ELSE /\ storage' = JSONStringify(newHistory)
                 /\ error' = error
       /\ loading' = FALSE
       /\ inflight' = RemoveAt(inflight, k)
       /\ lastResponse' = o
       /\ nextId' = nextId + 1
       /\ now' = now + 1
       /\ UNCHANGED <<mounted, storageFull, deviceModel, callsIssued, lastPrompt, accepted>>
       /\ UNCHANGED renderVars

\* handleGenerate after the await, the call having returned: the try body,
\* saveToHistory included, then finally. When localStorage.setItem throws
\* (quota), the catch turns that into the error banner.
GenerationSucceeds ==
  \E k \in 1..Len(inflight), o \in ApiOutcomes :
    LET req == inflight[k]
        res == GenerateBlueprint(o)
        newBlueprint == Blueprint(nextId, req.deviceModel, res.text, now)
        newHistory == NewHistory(req.history, newBlueprint)
    IN /\ res.ok
       /\ currentBlueprint' = <<newBlueprint>>
       /\ history' = newHistory
       /\ IF storageFull
            THEN /\ storage' = storage
                 /\ error' = <<QuotaError>>
            ELSE /\ storage' = JSONStringify(newHistory)
                 /\ error' = error
       /\ loading' = FALSE
       /\ inflight' = RemoveAt(inflight, k)
       /\ lastResponse' = o
       /\ nextId' = nextId + 1
       /\ now' = now + 1
       /\ UNCHANGED <<mounted, storageFull, deviceModel, callsIssued, lastPrompt, accepted>>
       /\ UNCHANGED renderVars

GenerationFails_Retry ==
  \E k \in 1..Len(inflight), o \in ApiOutcomes :
    LET res == GenerateBlueprint(o)
    IN /\ ~res.ok
       /\ error' = << IF res.message /= "" THEN res.message ELSE UnexpectedError >>
       /\ loading' = FALSE
       /\ inflight' = RemoveAt(inflight, k)
       /\ lastResponse' = o
       /\ callsIssued' = callsIssued + 1
       /\ UNCHANGED <<mounted, storageFull, deviceModel, currentBlueprint, history,
                      storage, lastPrompt, accepted, nextId, now>>
       /\ UNCHANGED renderVars

\* handleGenerate after the await, generateBlueprint having thrown: catch,
\* then finally
GenerationFails ==
  \E k \in 1..Len(inflight), o \in ApiOutcomes :
    LET res == GenerateBlueprint(o)
    IN /\ ~res.ok
       /\ error' = << IF res.message /= "" THEN res.message ELSE UnexpectedError >>
       /\ loading' = FALSE
       /\ inflight' = RemoveAt(inflight, k)
       /\ lastResponse' = o
       /\ UNCHANGED <<mounted, storageFull, deviceModel, currentBlueprint, history, storage,
                      callsIssued, lastPrompt, accepted, nextId, now>>
       /\ UNCHANGED renderVars

\* the "Blueprint Generator" button of the nav bar
NavReset ==
  /\ mounted
  /\ currentBlueprint' = <<>>
  /\ deviceModel' = <<>>
  /\ <<currentBlueprint', deviceModel'>> /= <<currentBlueprint, deviceModel>>
  /\ UNCHANGED <<mounted, storageFull, loading, history, error, storage, inflight,
                 callsIssued, lastPrompt, accepted, lastResponse, nextId, now>>
  /\ UNCHANGED renderVars

\* the recent-orchestrations cards are rendered under this condition
HistoryCardsShown == currentBlueprint = <<>> /\ ~loading /\ Len(history) > 0

\* onClick of a history card
HistoryCardClick ==
  /\ mounted
  /\ HistoryCardsShown
  /\ \E i \in 1..Len(history) :
       /\ currentBlueprint' = <<history[i]>>
       /\ deviceModel' = history[i].deviceModel
  /\ UNCHANGED <<mounted, storageFull, loading, history, error, storage, inflight,
                 callsIssued, lastPrompt, accepted, lastResponse, nextId, now>>
  /\ UNCHANGED renderVars

Next ==
  \/ Mount
  \/ ChangeInput
  \/ HandleGenerate
  \/ GenerationSucceeds
  \/ GenerationFails
  \/ NavReset
  \/ HistoryCardClick

Spec == Init /\ [][Next]_vars

\* the awaited generateContent call eventually returns or throws
FairSpec == Spec /\ WF_vars(GenerationSucceeds \/ GenerationFails)

\* ------------------------------------------- MarkdownContent, line by line
InitRender ==
  /\ mounted = TRUE
  /\ storageFull = FALSE
  /\ deviceModel = <<>>
  /\ loading = FALSE
  /\ currentBlueprint = <<>>
  /\ history = <<>>
  /\ error = <<>>
  /\ storage = [kind |-> "absent", value |-> <<>>]
  /\ inflight = <<>>
  /\ callsIssued = 0
  /\ lastPrompt = <<>>
  /\ accepted = 0
  /\ lastResponse = NoResponse
  /\ nextId = PriorGenerations + 1
  /\ now = PriorGenerations + 1
  /\ content \in RenderInputs
  /\ pos = 0
  /\ render = RenderStart

Lines == Split(content)

\* one call of the forEach callback
RenderLine ==
  /\ pos < Len(Lines)
  /\ render' = RenderStep(render, Lines[pos + 1], pos)
  /\ pos' = pos + 1
  /\ UNCHANGED content
  /\ UNCHANGED appVars

RenderDone == pos = Len(Lines)

NextRender == RenderLine

SpecRender == InitRender /\ [][NextRender]_vars

\* ------------------------------------------------------------------- claims

\* C1: the history list holds at most 10 records and no two of them have
\* the same deviceModel.
C1_HistoryCappedAndDistinct ==
  /\ Len(history) <= 10
  /\ \A i, j \in 1..Len(history) :
       i /= j => history[i].deviceModel /= history[j].deviceModel

\* a full list from which the oldest record of the earlier session was evicted
C1_Witness ==
  /\ Len(history) = 10
  /\ history[1].id > PriorGenerations
  /\ \A i \in 1..Len(history) : history[i].deviceModel /= PriorModel(1)

KeptUpTo(old, p, model) ==
  Cardinality({ q \in 1..p : old[q].deviceModel /= model })

\* C2: a save puts the new record first, removes every earlier record of
\* its deviceModel, keeps the other records in their order, and drops
\* records only from the tail and only when the list is full.
C2_SaveToHistoryShape ==
  [][ nextId' /= nextId =>
        LET b == currentBlueprint'[1]
            old == history
            new == history'
        IN /\ new[1] = b
           /\ \A i \in 2..Len(new) : new[i].deviceModel /= b.deviceModel
           /\ Len(new) <= 1 + KeptUpTo(old, Len(old), b.deviceModel)
           /\ \A p \in 1..Len(old) :
                old[p].deviceModel /= b.deviceModel =>
                  LET r == KeptUpTo(old, p, b.deviceModel)
                  IN IF r + 1 <= Len(new) THEN new[r + 1] = old[p]
                                          ELSE Len(new) = 10 ]_vars

\* the oldest record of the earlier session was regenerated and moved first
C2_Witness ==
  /\ nextId > PriorGenerations + 1
  /\ Len(history) = PriorGenerations
  /\ history[1].deviceModel = PriorModel(1)
  /\ history[1].id > PriorGenerations

\* C3: at most one generation request is in flight, and loading is true
\* exactly while one is.
C3_OneRequestInFlight ==
  /\ Len(inflight) <= 1
  /\ loading <=> inflight /= <<>>

\* a request is pending while the input holds another valid device model
C3_Witness ==
  /\ loading
  /\ Len(inflight) = 1
  /\ Trim(deviceModel) /= <<>>
  /\ deviceModel /= inflight[1].deviceModel

\* C4: from the submission to the failure of the request the history and
\* the storage slot do not change, and when the request fails no blueprint
\* is displayed, the error is set and loading is false.
C4_FailedGeneration ==
  [][ /\ lastResponse'.kind = "pending" =>
           history' = history /\ storage' = storage
      /\ (lastResponse.kind = "pending" /\ lastResponse'.kind = "thrown") =>
           /\ currentBlueprint' = <<>>
           /\ error' /= <<>>
           /\ ~loading'
           /\ history' = history
           /\ storage' = storage ]_vars

\* a record of the history was displayed, then submitted again, and the
\* request failed
C4_Witness ==
  /\ lastResponse.kind = "thrown"
  /\ deviceModel = PriorModel(3)
  /\ currentBlueprint = <<>>
  /\ error /= <<>>
  /\ ~loading
  /\ Len(history) > 0

\* C5: after the outbound call has thrown, whatever its message, the error
\* state is exactly the fixed service message.
C5_FixedErrorMessage ==
  lastResponse.kind = "thrown" => error = <<ServiceError>>

C5_Witness ==
  /\ lastResponse.kind = "thrown"
  /\ lastResponse.message = "fetch failed"
  /\ error = <<ServiceError>>

\* C6: the number of outbound calls equals the number of accepted
\* submissions, and the prompt of a pending call contains the device model
\* that was submitted.
C6_OneCallPerSubmission ==
  /\ callsIssued = accepted
  /\ \A k \in 1..Len(inflight) :
       /\ inflight[k].deviceModel /= <<>>
       /\ Includes(lastPrompt, inflight[k].deviceModel)

\* two submissions, the second one failed, and two calls were made
C6_Witness ==
  /\ accepted = 2
  /\ callsIssued = 2
  /\ lastResponse.kind = "thrown"
  /\ nextId = PriorGenerations + 2

\* C7: every deviceModel handed to generateBlueprint, and stored in a
\* record, is non-empty and has no leading or trailing whitespace.
C7_DeviceModelTrimmed ==
  /\ \A k \in 1..Len(inflight) :
       /\ inflight[k].deviceModel /= <<>>
       /\ Trim(inflight[k].deviceModel) = inflight[k].deviceModel
  /\ \A i \in 1..Len(history) :
       /\ history[i].deviceModel /= <<>>
       /\ Trim(history[i].deviceModel) = history[i].deviceModel

\* the indices (1-based) of the fence lines among the first n lines
RECURSIVE FencesUpTo(_, _)
FencesUpTo(lines, n) ==
  IF n = 0 THEN <<>>
  ELSE IF IsFence(lines[n]) THEN Append(FencesUpTo(lines, n - 1), n)
  ELSE FencesUpTo(lines, n - 1)

\* C8: every closed fenced region yields exactly one code node, whose text
\* is the lines strictly between the two fences joined verbatim; a fence
\* line yields no node of its own.
C8_ClosedFenceIsOneCodeBlock ==
  RenderDone =>
    LET F == FencesUpTo(Lines, Len(Lines))
        closed == Len(F) \div 2
        code == SelectSeq(render.elements, LAMBDA n : n.tag = "code")
    IN /\ Len(code) = closed
       /\ \A k \in 1..closed :
            /\ code[k].text = Join(SubSeq(Lines, F[2 * k - 1] + 1, F[2 * k] - 1))
            /\ code[k].key = F[2 * k] - 1
       /\ \A k \in 1..Len(render.elements) :
            render.elements[k].tag /= "code" =>
              /\ ~IsFence(Lines[render.elements[k].key + 1])
              /\ \A j \in 1..closed :
                   ~(F[2 * j - 1] <= render.elements[k].key + 1
                       /\ render.elements[k].key + 1 <= F[2 * j])

\* a region holding a Markdown-looking line and a blank line was rendered
C8_Witness ==
  /\ RenderDone
  /\ \E k \in 1..Len(render.elements) :
       /\ render.elements[k].tag = "code"
       /\ render.elements[k].text = <<"#", " ", "a", "\n">>

\* C9: when the input ends inside a fenced block, no node is emitted for
\* the last opening fence or any line after it, and the nodes are those of
\* the lines before that fence.
C9_UnterminatedFenceDropped ==
  (RenderDone /\ render.isCodeBlock) =>
    LET F == FencesUpTo(Lines, Len(Lines))
        open == F[Len(F)]
    IN /\ Len(F) % 2 = 1
       /\ \A k \in 1..Len(render.elements) : render.elements[k].key + 1 < open
       /\ render.elements = RenderLines(Lines, open - 1).elements

\* nodes were emitted, then a fence opened and lines followed it to the end
C9_Witness ==
  /\ RenderDone
  /\ render.isCodeBlock
  /\ Len(render.currentCodeBlock) >= 2
  /\ render.elements /= <<>>

\* p is digits, a dot and then only whitespace
IsOrderedMarker(p) ==
  LET d == LeadingDigits(p)
  IN /\ d >= 1 /\ Len(p) > d /\ p[d + 1] = "."
     /\ \A q \in (d + 2)..Len(p) : IsSpace(p[q])

\* C10: the text of a heading or list node is its line with the marker
\* prefix removed; for an ordered item the removed prefix is the digits,
\* the dot and the whitespace after it.
C10_MarkerStripped ==
  \A k \in 1..Len(render.elements) :
    LET n == render.elements[k]
        l == Lines[n.key + 1]
    IN /\ n.tag = "h1" => l = <<"#", " ">> \o n.text
       /\ n.tag = "h2" => l = <<"#", "#", " ">> \o n.text
       /\ n.tag = "h3" => l = <<"#", "#", "#", " ">> \o n.text
       /\ n.tag = "ul" => (l = <<"-", " ">> \o n.text \/ l = <<"*", " ">> \o n.text)
       /\ n.tag = "ol" =>
            \E m \in 2..Len(l) :
              /\ IsOrderedMarker(SubSeq(l, 1, m))
              /\ n.text = Substring(l, m)

\* the line a span list stands for: a bold span between its delimiters
RECURSIVE Reassemble(_)
Reassemble(spans) ==
  IF spans = <<>> THEN <<>>
  ELSE (IF Head(spans).bold
          THEN <<"*", "*">> \o Head(spans).text \o <<"*", "*">>
          ELSE Head(spans).text) \o Reassemble(Tail(spans))

\* C11: the spans of a paragraph are the texts between matched pairs of **
\* as bold spans without their delimiters and all other text as non-bold
\* spans, in order: putting the delimiters back around the bold spans gives
\* the line, no bold text holds a delimiter and no non-bold span holds a
\* matched pair.
C11_BoldSpans ==
  \A k \in 1..Len(render.elements) :
    LET n == render.elements[k]
        l == Lines[n.key + 1]
    IN n.tag = "p" =>
         /\ Reassemble(n.spans) = l
         /\ \A q \in 1..Len(n.spans) :
              IF n.spans[q].bold
                THEN ~Includes(n.spans[q].text, <<"*", "*">>)
                ELSE \A i, j \in 1..Len(n.spans[q].text) :
                       ~BoldMatch(n.spans[q].text, i, j)

\* C12: a request that was issued completes (loading becomes false again),
\* and at that step exactly one of the two outcomes holds: the new record
\* is displayed and is first in the history, or the error is set.
C12_RequestCompletesWithOneOutcome ==
  /\ loading ~> ~loading
  /\ [][ (loading /\ ~loading') =>
           ( ( /\ currentBlueprint' /= <<>>
               /\ currentBlueprint'[1].id = nextId
               /\ history' /= <<>>
               /\ history'[1] = currentBlueprint'[1] )
             /= (error' /= <<>>) ) ]_vars

\* C13 as stated: from the issue of a request to its completion no step
\* changes the device-model input state.
C13_InputFrozenWhileLoading ==
  [][ loading => deviceModel' = deviceModel ]_vars

\* C13 as amended: while a request is in flight the input state can change,
\* but no step sends another request or alters the pending one, and the
\* record created on success carries the device model that was sent.
C13_RequestKeepsSubmittedModel ==
  [][ loading =>
        /\ callsIssued' = callsIssued
        /\ lastPrompt' = lastPrompt
        /\ loading' => inflight' = inflight
        /\ nextId' /= nextId =>
             /\ Prompt(currentBlueprint'[1].deviceModel) = lastPrompt
             /\ history'[1].deviceModel = currentBlueprint'[1].deviceModel ]_vars

\* the input was emptied while the request for a device model is pending
C13_Witness ==
  /\ loading
  /\ Len(inflight) = 1
  /\ deviceModel = <<>>
  /\ lastPrompt = Prompt(inflight[1].deviceModel)

====
